---- MODULE Spec2Model ----
(***************************************************************************)
(* Model of projgen (src/main.go, lines 1-392): a one-shot generator that  *)
(* parses flags, validates them, probes the cmake version, materialises a  *)
(* project tree, optionally bootstraps vcpkg and optionally runs git.      *)
(* Paths are tuples of path elements; a file's content is a sequence of    *)
(* lines, each line a tuple of tokens.  Comment and blank lines of the     *)
(* CMake template are not represented.  Outcomes of external processes     *)
(* are nondeterministic.  I/O errors other than path collisions            *)
(* (permissions, full disk) are not modelled.                              *)
(***************************************************************************)
EXTENDS Integers, Sequences, FiniteSets, TLC

MaxRuns == 2

NoArg == "<unset>"
NoData == [ProjectName |-> "", Type |-> "", Lang |-> "", Standard |-> "",
           CMakeVersion |-> "", CMakeLang |-> "", FileExt |-> "", PackageMgr |-> ""]

\* command lines tried: each flag either absent or given with a value
NameArgs == {NoArg, "demo"}
TypeArgs == {NoArg, "library", "shared"}
LangArgs == {NoArg, "c", "rust"}
StdArgs == {NoArg, "17"}
PkgMgrArgs == {NoArg, "none"}
ArgSets == [name : NameArgs, type : TypeArgs, lang : LangArgs, std : StdArgs, pkgmgr : PkgMgrArgs]

\* what `cmake --version` can do: fail to run, print something else, print a version
ProbeFail == <<"<exec error>">>
CMakeOutputs == {ProbeFail, <<"cmake">>, <<"cmake version ", "3.28.1">>}

\* lines typed at the git prompt (characters); <<>> is end of input
Answers == {<<"y", "\n">>, <<" ", "Y", "E", "S", "\n">>, <<"n", "\n">>, <<>>}

\* the filesystem the first run may find
ProjectRoot == <<"demo">>
NoFiles == [p \in {} |-> <<>>]
InitialTrees == {[d |-> {}, f |-> NoFiles],
                 [d |-> {}, f |-> [p \in {ProjectRoot} |-> <<>>]],
                 [d |-> {ProjectRoot, <<"demo", "CMakeLists.txt">>}, f |-> NoFiles]}

VARIABLES pc, run, args, flags, data, input, exitCode, log, dirs, files,
          startDirs, startFiles, prev, completed

vars == <<pc, run, args, flags, data, input, exitCode, log, dirs, files,
          startDirs, startFiles, prev, completed>>

----
\* templates

cppMainTemplate ==
  << <<"#include \"pch.hpp\"">>, <<"int main() {">>,
     <<"std::cout << \"Hello, World!\" << std::endl;">>, <<"return 0;">>, <<"}">> >>

pchTemplate ==
  << <<"#ifndef PCH_HPP">>, <<"#define PCH_HPP">>, <<"#include <iostream>">>, <<"#endif">> >>

gitignoreTemplate == << <<"*.o">>, <<"/build/">>, <<".vscode/">> >>

gitattributesTemplate == << <<"* text=auto">>, <<"*.c text">>, <<"*.cpp text">> >>

\* the template with the standard directive not made conditional on the language
RenderCMakeAlwaysCxx(d) ==
  << <<"cmake_minimum_required", "VERSION", d.CMakeVersion>>,
     <<"project", d.ProjectName, "LANGUAGES", d.CMakeLang>>,
     <<"set", "CMAKE_CXX_STANDARD", d.Standard>> >>
  \o (IF d.Type = "executable"
        THEN << <<"add_executable", d.ProjectName, "src/main", d.FileExt>> >>
      ELSE IF d.Type = "library"
        THEN << <<"add_library", d.ProjectName, "src/main", d.FileExt>> >>
      ELSE <<>>)

\* template.Execute(cmakeTemplate, data)
RenderCMake(d) ==
  << <<"cmake_minimum_required", "VERSION", d.CMakeVersion>>,
     <<"project", d.ProjectName, "LANGUAGES", d.CMakeLang>> >>
  \o (IF d.Lang = "cpp" THEN << <<"set", "CMAKE_CXX_STANDARD", d.Standard>> >>
      ELSE IF d.Lang = "c" THEN << <<"set", "CMAKE_C_STANDARD", d.Standard>> >>
      ELSE <<>>)
  \o (IF d.Lang = "cpp" THEN << <<"set", "CMAKE_PCH_ENABLED", "ON">> >> ELSE <<>>)
  \o (IF d.Type = "executable"
        THEN << <<"add_executable", d.ProjectName, "src/main", d.FileExt>> >>
      ELSE IF d.Type = "library"
        THEN << <<"add_library", d.ProjectName, "src/main", d.FileExt>> >>
      ELSE <<>>)
  \o (IF d.Lang = "cpp"
        THEN << <<"target_precompile_headers", d.ProjectName, "PRIVATE", "include/pch.hpp">> >>
      ELSE <<>>)

\* json.MarshalIndent of {"dependencies": []}
VcpkgManifest == << <<"{">>, <<"dependencies", "[]">>, <<"}">> >>

\* json.MarshalIndent of the presets map
RenderPresets(d) ==
  LET toolchainPath == IF d.PackageMgr = "vcpkg"
                         THEN "vcpkg/scripts/buildsystems/vcpkg.cmake" ELSE ""
  IN << <<"version", "3">>,
        <<"name", d.ProjectName, "-Debug">>,
        <<"generator", "Visual Studio 17 2022">>,
        <<"binaryDir", "${sourceDir}/build/${presetName}">>,
        <<"CMAKE_BUILD_TYPE", "Debug">>,
        <<"CMAKE_TOOLCHAIN_FILE", toolchainPath>> >>

----
\* flags and descriptor

\* flag.String(name, default, usage) after flag.Parse
FlagValue(arg, def) == IF arg = NoArg THEN def ELSE arg

ParseFlags(a) ==
  [name   |-> FlagValue(a.name, ""),
   type   |-> FlagValue(a.type, "executable"),
   lang   |-> FlagValue(a.lang, "cpp"),
   std    |-> FlagValue(a.std, "11"),
   pkgmgr |-> FlagValue(a.pkgmgr, "vcpkg")]

NameGiven(f) == f.name # ""
LangSupportedAny(f) == f.lang # ""
LangSupported(f) == ~(f.lang # "cpp" /\ f.lang # "c")
PkgMgrSupported(f) == ~(f.pkgmgr # "vcpkg")

\* regexp `cmake version (\d+\.\d+\.\d+)` on the probe's output
ParseCMakeVersion(out) ==
  IF Len(out) = 2 /\ out[1] = "cmake version " THEN out[2] ELSE ""

CMakeLangOfCppOnly(lang) == IF lang = "cpp" THEN "CXX" ELSE ""
CMakeLangOf(lang) == IF lang = "cpp" THEN "CXX" ELSE IF lang = "c" THEN "C" ELSE ""
FileExtOf(lang) == IF lang = "cpp" THEN "cpp" ELSE IF lang = "c" THEN "c" ELSE ""

MakeProjectData(f, version) ==
  [ProjectName |-> f.name, Type |-> f.type, Lang |-> f.lang, Standard |-> f.std,
   CMakeVersion |-> version, CMakeLang |-> CMakeLangOf(f.lang),
   FileExt |-> FileExtOf(f.lang), PackageMgr |-> f.pkgmgr]

\* strings.ToLower / strings.TrimSpace on the answer line
LowerChar(c) == CASE c = "Y" -> "y" [] c = "E" -> "e" [] c = "S" -> "s" [] c = "N" -> "n"
                  [] OTHER -> c
ToLower(s) == [i \in 1..Len(s) |-> LowerChar(s[i])]
IsSpace(c) == c \in {" ", "\n", "\t", "\r"}
RECURSIVE TrimLeft(_)
TrimLeft(s) == IF s # <<>> /\ IsSpace(Head(s)) THEN TrimLeft(Tail(s)) ELSE s
RECURSIVE TrimRight(_)
TrimRight(s) == IF s # <<>> /\ IsSpace(s[Len(s)]) THEN TrimRight(SubSeq(s, 1, Len(s) - 1)) ELSE s
TrimSpace(s) == TrimRight(TrimLeft(s))
AcceptsUnlessNo(line) ==
  LET in == TrimSpace(ToLower(line)) IN in # <<"n">> /\ in # <<"n", "o">>
Accepts(line) ==
  LET in == TrimSpace(ToLower(line)) IN in = <<"y">> \/ in = <<"y", "e", "s">>

----
\* filesystem

Join(p, q) == p \o q
Exists(ds, fs, p) == p \in ds \/ p \in DOMAIN fs
Prefixes(p, n) == {SubSeq(p, 1, k) : k \in 1..n}

\* os.Mkdir on the last element: an existing directory is an error
MkdirExisting(ds, fs, p) ==
  LET bad == {k \in 1..Len(p) : SubSeq(p, 1, k) \in DOMAIN fs}
      first == IF bad = {} THEN Len(p) + 1 ELSE CHOOSE k \in bad : \A j \in bad : k <= j
  IN [ok |-> bad = {} /\ p \notin ds, dirs |-> ds \cup Prefixes(p, first - 1)]

\* os.MkdirAll: existing directories are not an error, a file in the way is
MkdirAll(ds, fs, p) ==
  LET bad == {k \in 1..Len(p) : SubSeq(p, 1, k) \in DOMAIN fs}
      first == IF bad = {} THEN Len(p) + 1 ELSE CHOOSE k \in bad : \A j \in bad : k <= j
  IN [ok |-> bad = {}, dirs |-> ds \cup Prefixes(p, first - 1)]

\* the loop of createProjectStructure over src, include, build
RECURSIVE MkdirLoop(_, _, _, _)
MkdirLoop(ds, fs, root, names) ==
  IF names = <<>> THEN [ok |-> TRUE, dirs |-> ds]
  ELSE LET r == MkdirAll(ds, fs, Join(root, <<Head(names)>>))
       IN IF r.ok THEN MkdirLoop(r.dirs, fs, root, Tail(names)) ELSE r

\* os.Create: truncates an existing file; fails on a directory or a missing parent
CanCreate(ds, fs, p) ==
  /\ p \notin ds
  /\ Len(p) > 1 => SubSeq(p, 1, Len(p) - 1) \in ds

WriteFile(fs, p, content) ==
  [q \in DOMAIN fs \cup {p} |-> IF q = p THEN content ELSE fs[q]]

----
Ev(kind, what, ok) == [kind |-> kind, what |-> what, ok |-> ok]

Init ==
  /\ pc = "idle"
  /\ run = 0
  /\ args = [name |-> NoArg, type |-> NoArg, lang |-> NoArg, std |-> NoArg, pkgmgr |-> NoArg]
  /\ flags = ParseFlags(args)
  /\ data = NoData
  /\ input = <<>>
  /\ exitCode = -1
  /\ log = <<>>
  /\ \E t \in InitialTrees : dirs = t.d /\ files = t.f
  /\ startDirs = dirs
  /\ startFiles = files
  /\ prev = [args |-> args, exitCode |-> -1, generated |-> FALSE]
  /\ completed = {}

\* fmt.Print... followed by os.Exit(1)
Abort(evs) ==
  /\ log' = log \o evs
  /\ pc' = "done"
  /\ exitCode' = 1

Root == <<data.ProjectName>>
Generated(l) == \E i \in 1..Len(l) : l[i] = Ev("print", "created successfully", TRUE)

\* one invocation of the program: flag definitions and flag.Parse
Invoke(a) ==
  /\ pc \in {"idle", "done"}
  /\ run < MaxRuns
  /\ run' = run + 1
  /\ args' = a
  /\ flags' = ParseFlags(a)
  /\ data' = NoData
  /\ input' = <<>>
  /\ exitCode' = -1
  /\ log' = <<>>
  /\ startDirs' = dirs
  /\ startFiles' = files
  /\ prev' = IF pc = "done"
               THEN [args |-> args, exitCode |-> exitCode, generated |-> Generated(log)]
               ELSE prev
  /\ pc' = "validate"
  /\ UNCHANGED <<dirs, files, completed>>

\* the three checks of main, in order
Validate ==
  /\ pc = "validate"
  /\ IF ~NameGiven(flags) THEN Abort(<<Ev("print", "Project name is required", FALSE)>>)
     ELSE IF ~LangSupported(flags) THEN Abort(<<Ev("print", "Unsupported language", FALSE)>>)
     ELSE IF ~PkgMgrSupported(flags)
       THEN Abort(<<Ev("print", "Unsupported package manager", FALSE)>>)
     ELSE pc' = "probe" /\ UNCHANGED <<log, exitCode>>
  /\ UNCHANGED <<run, args, flags, data, input, dirs, files, startDirs, startFiles, prev, completed>>

\* getCMakeVersion and the construction of projectData
GetCMakeVersion ==
  /\ pc = "probe"
  /\ \E out \in CMakeOutputs :
       LET ran == out # ProbeFail
           version == IF ran THEN ParseCMakeVersion(out) ELSE ""
       IN IF version = ""
            THEN /\ Abort(<<Ev("exec", "cmake --version", ran),
                            Ev("print", "Error retrieving CMake version", FALSE)>>)
                 /\ UNCHANGED <<data, completed>>
            ELSE /\ log' = Append(log, Ev("exec", "cmake --version", TRUE))
                 /\ data' = MakeProjectData(flags, version)
                 /\ completed' = completed \cup {"cmake --version"}
                 /\ pc' = "mkdirs"
                 /\ UNCHANGED exitCode
  /\ UNCHANGED <<run, args, flags, input, dirs, files, startDirs, startFiles, prev>>

\* createProjectStructure: the directory loop
MakeDirs ==
  /\ pc = "mkdirs"
  /\ LET r == MkdirLoop(dirs, files, Root, <<"src", "include", "build">>)
     IN /\ dirs' = r.dirs
        /\ IF r.ok
             THEN /\ log' = Append(log, Ev("mkdir", "src include build", TRUE))
                  /\ pc' = "cmakelists"
                  /\ UNCHANGED exitCode
             ELSE Abort(<<Ev("mkdir", "src include build", FALSE)>>)
  /\ UNCHANGED <<run, args, flags, data, input, files, startDirs, startFiles, prev, completed>>

\* os.Create + write of one file, exiting with 1 when it cannot be created
CreateOne(name, content, next) ==
  LET p == Join(Root, name)
  IN IF CanCreate(dirs, files, p)
       THEN /\ files' = WriteFile(files, p, content)
            /\ log' = Append(log, Ev("write", name[Len(name)], TRUE))
            /\ pc' = next
            /\ UNCHANGED exitCode
       ELSE /\ Abort(<<Ev("write", name[Len(name)], FALSE)>>)
            /\ UNCHANGED files

CreateCMakeLists ==
  /\ pc = "cmakelists"
  /\ CreateOne(<<"CMakeLists.txt">>, RenderCMake(data), "vcpkg")
  /\ UNCHANGED <<run, args, flags, data, input, dirs, startDirs, startFiles, prev, completed>>

VcpkgPath == Join(Root, <<"vcpkg">>)

\* if data.PackageMgr == "vcpkg" and the os.Stat of the vcpkg directory
CheckVcpkg ==
  /\ pc = "vcpkg"
  /\ pc' = IF data.PackageMgr = "vcpkg"
             THEN (IF ~Exists(dirs, files, VcpkgPath) THEN "clone" ELSE "vcpkg_json")
             ELSE "mainfile"
  /\ UNCHANGED <<run, args, flags, data, input, exitCode, log, dirs, files,
                 startDirs, startFiles, prev, completed>>

\* cmd.Run() of an external tool inside createProjectStructure
RunOrExit(what, ok, next) ==
  IF ok
    THEN /\ log' = Append(log, Ev("exec", what, TRUE))
         /\ completed' = completed \cup {what}
         /\ pc' = next
         /\ UNCHANGED exitCode
    ELSE /\ Abort(<<Ev("exec", what, FALSE)>>)
         /\ UNCHANGED completed

CloneVcpkg ==
  /\ pc = "clone"
  /\ \E ok \in BOOLEAN :
       /\ RunOrExit("git clone", ok, "bootstrap")
       /\ dirs' = IF ok THEN dirs \cup {VcpkgPath} ELSE dirs
  /\ UNCHANGED <<run, args, flags, data, input, files, startDirs, startFiles, prev>>

BootstrapVcpkg ==
  /\ pc = "bootstrap"
  /\ \E ok \in BOOLEAN : RunOrExit("bootstrap-vcpkg", ok, "vcpkg_new")
  /\ UNCHANGED <<run, args, flags, data, input, dirs, files, startDirs, startFiles, prev>>

VcpkgNew ==
  /\ pc = "vcpkg_new"
  /\ \E ok \in BOOLEAN : RunOrExit("vcpkg new", ok, "vcpkg_json")
  /\ UNCHANGED <<run, args, flags, data, input, dirs, files, startDirs, startFiles, prev>>

WriteVcpkgManifest ==
  /\ pc = "vcpkg_json"
  /\ CreateOne(<<"vcpkg.json">>, VcpkgManifest, "presets")
  /\ UNCHANGED <<run, args, flags, data, input, dirs, startDirs, startFiles, prev, completed>>

CreateCMakePresets ==
  /\ pc = "presets"
  /\ CreateOne(<<"CMakePresets.json">>, RenderPresets(data), "mainfile")
  /\ UNCHANGED <<run, args, flags, data, input, dirs, startDirs, startFiles, prev, completed>>

\* the starter files chosen by data.Lang
StarterFiles(d) ==
  IF d.Lang = "cpp"
    THEN << [name |-> <<"src", "main.cpp">>, content |-> cppMainTemplate],
            [name |-> <<"include", "pch.hpp">>, content |-> pchTemplate] >>
  ELSE IF d.Lang = "c"
    THEN << [name |-> <<"src", "main.c">>, content |-> cppMainTemplate] >>
  ELSE <<>>

\* createFile over a list of files, stopping at the first that cannot be created
RECURSIVE CreateAll(_, _, _, _, _)
CreateAll(ds, fs, root, list, evs) ==
  IF list = <<>> THEN [ok |-> TRUE, files |-> fs, evs |-> evs]
  ELSE LET p == Join(root, Head(list).name)
           nm == Head(list).name[Len(Head(list).name)]
       IN IF CanCreate(ds, fs, p)
            THEN CreateAll(ds, WriteFile(fs, p, Head(list).content), root, Tail(list),
                           Append(evs, Ev("write", nm, TRUE)))
            ELSE [ok |-> FALSE, files |-> fs, evs |-> Append(evs, Ev("write", nm, FALSE))]

CreateMainFiles ==
  /\ pc = "mainfile"
  /\ LET r == CreateAll(dirs, files, Root, StarterFiles(data), <<>>)
     IN /\ files' = r.files
        /\ IF r.ok
             THEN /\ log' = log \o r.evs \o <<Ev("print", "created successfully", TRUE)>>
                  /\ pc' = "prompt"
                  /\ UNCHANGED exitCode
             ELSE Abort(r.evs)
  /\ UNCHANGED <<run, args, flags, data, input, dirs, startDirs, startFiles, prev, completed>>

\* initializeVersionControl: the prompt and the reading of the answer
Prompt ==
  /\ pc = "prompt"
  /\ \E line \in Answers :
       /\ input' = line
       /\ IF Accepts(line)
            THEN pc' = "git_init" /\ UNCHANGED <<log, exitCode>>
            ELSE /\ log' = Append(log, Ev("print", "Skipped Git initialization", TRUE))
                 /\ pc' = "done"
                 /\ exitCode' = 0
  /\ UNCHANGED <<run, args, flags, data, dirs, files, startDirs, startFiles, prev, completed>>

GitInit ==
  /\ pc = "git_init"
  /\ \E ok \in BOOLEAN :
       /\ log' = Append(log, Ev("exec", "git init", ok))
       /\ IF ok
            THEN /\ dirs' = dirs \cup {Join(Root, <<".git">>)}
                 /\ completed' = completed \cup {"git init"}
                 /\ pc' = "git_files"
                 /\ UNCHANGED exitCode
            ELSE /\ pc' = "done"
                 /\ exitCode' = 0
                 /\ UNCHANGED <<dirs, completed>>
  /\ UNCHANGED <<run, args, flags, data, input, files, startDirs, startFiles, prev>>

GitFiles ==
  << [name |-> <<".gitignore">>, content |-> gitignoreTemplate],
     [name |-> <<".gitattributes">>, content |-> gitattributesTemplate] >>

WriteGitFiles ==
  /\ pc = "git_files"
  /\ LET r == CreateAll(dirs, files, Root, GitFiles, <<>>)
     IN /\ files' = r.files
        /\ IF r.ok
             THEN log' = log \o r.evs /\ pc' = "git_add" /\ UNCHANGED exitCode
             ELSE Abort(r.evs)
  /\ UNCHANGED <<run, args, flags, data, input, dirs, startDirs, startFiles, prev, completed>>

GitAdd ==
  /\ pc = "git_add"
  /\ \E ok \in BOOLEAN :
       /\ log' = Append(log, Ev("exec", "git add", ok))
       /\ completed' = IF ok THEN completed \cup {"git add"} ELSE completed
  /\ pc' = "done"
  /\ exitCode' = 0
  /\ UNCHANGED <<run, args, flags, data, input, dirs, files, startDirs, startFiles, prev>>

Next ==
  \/ \E a \in ArgSets : Invoke(a)
  \/ Validate
  \/ GetCMakeVersion
  \/ MakeDirs
  \/ CreateCMakeLists
  \/ CheckVcpkg
  \/ CloneVcpkg
  \/ BootstrapVcpkg
  \/ VcpkgNew
  \/ WriteVcpkgManifest
  \/ CreateCMakePresets
  \/ CreateMainFiles
  \/ Prompt
  \/ GitInit
  \/ WriteGitFiles
  \/ GitAdd

Spec == Init /\ [][Next]_vars

----
\* observations on the log of the current run and on file contents

Happened(ev) == \E i \in 1..Len(log) : log[i] = ev
Wrote(name) == Happened(Ev("write", name, TRUE))
Ran(what) == \E i \in 1..Len(log) : log[i].kind = "exec" /\ log[i].what = what
SideEffect(e) == e.kind \in {"exec", "mkdir", "write"}
LinesOf(p) == {files[p][i] : i \in 1..Len(files[p])}
Count(content, P(_)) == Cardinality({i \in 1..Len(content) : P(content[i])})
ManifestPath == Join(Root, <<"CMakeLists.txt">>)
GitNames == {".gitignore", ".gitattributes"}
VcpkgTools == {"git clone", "bootstrap-vcpkg", "vcpkg new"}

\* C1: every failing external tool other than `git add` ends the run with exit
\* code 1 and nothing is done after it; a failing `git add` leaves exit code 0.
C1_FailedToolAborts ==
  \A i \in 1..Len(log) :
    (log[i].kind = "exec" /\ ~log[i].ok) =>
      /\ pc = "done"
      /\ \A j \in (i + 1)..Len(log) : ~SideEffect(log[j])
      /\ exitCode = IF log[i].what = "git add" THEN 0 ELSE 1

\* C2: an empty name, a language other than c/cpp or an unsupported package
\* manager ends the run with exit code 1 with no directory or file created and
\* no external process started.
C2_InvalidFlagsTouchNothing ==
  (run > 0 /\ (flags.name = "" \/ flags.lang \notin {"c", "cpp"} \/ flags.pkgmgr # "vcpkg")) =>
    /\ pc \in {"validate", "done"}
    /\ pc = "done" => exitCode = 1
    /\ \A i \in 1..Len(log) : ~SideEffect(log[i])
    /\ dirs = startDirs
    /\ files = startFiles

C2_Witness ==
  /\ pc = "done" /\ exitCode = 1
  /\ flags.name = "demo" /\ flags.lang = "rust"
  /\ run = 2 /\ DOMAIN files # {}

\* C3: a run with no package manager chosen (-pkgmgr absent or "none") passes
\* validation, runs no vcpkg clone/bootstrap/manifest-init and writes neither
\* vcpkg.json nor CMakePresets.json.
C3_PkgMgrOptional ==
  (run > 0 /\ args.pkgmgr \in {NoArg, "none"}) =>
    /\ ~Happened(Ev("print", "Unsupported package manager", FALSE))
    /\ \A t \in VcpkgTools : ~Ran(t)
    /\ ~Wrote("vcpkg.json") /\ ~Wrote("CMakePresets.json")

\* C4: in every descriptor built after validation, (CMakeLang, FileExt) is
\* (CXX, cpp) for Lang=cpp and (C, c) for Lang=c, whatever the other fields,
\* and neither is empty.
C4_DerivedPair ==
  data # NoData =>
    /\ data.Lang = flags.lang
    /\ data.Lang = "cpp" => (data.CMakeLang = "CXX" /\ data.FileExt = "cpp")
    /\ data.Lang = "c" => (data.CMakeLang = "C" /\ data.FileExt = "c")
    /\ data.CMakeLang # "" /\ data.FileExt # ""

C4_Witness ==
  /\ pc = "mkdirs"
  /\ data.Lang = "c" /\ data.Type = "shared" /\ data.Standard = "17"
  /\ data.CMakeLang = "C"

IsStandardLine(l) == l[1] = "set" /\ l[2] \in {"CMAKE_CXX_STANDARD", "CMAKE_C_STANDARD"}

\* C5: the manifest written holds exactly one language-standard directive, the
\* one of the descriptor's language with the -std value, and for type
\* executable (library) an add_executable (add_library) directive naming the
\* project and src/main.<FileExt>.
C5_ManifestDirectives ==
  Wrote("CMakeLists.txt") =>
    LET m == files[ManifestPath]
        tag == IF flags.lang = "cpp" THEN "CMAKE_CXX_STANDARD" ELSE "CMAKE_C_STANDARD"
        ext == IF flags.lang = "cpp" THEN "cpp" ELSE "c"
    IN /\ Count(m, IsStandardLine) = 1
       /\ <<"set", tag, flags.std>> \in LinesOf(ManifestPath)
       /\ flags.type = "executable" =>
            <<"add_executable", flags.name, "src/main", ext>> \in LinesOf(ManifestPath)
       /\ flags.type = "library" =>
            <<"add_library", flags.name, "src/main", ext>> \in LinesOf(ManifestPath)

C5_Witness ==
  /\ Wrote("CMakeLists.txt")
  /\ flags.lang = "c" /\ flags.type = "library" /\ flags.std = "17"
  /\ <<"set", "CMAKE_C_STANDARD", "17">> \in LinesOf(ManifestPath)

\* C6: when the answer at the prompt is not an acceptance, the run never runs
\* git init or git add and never writes .gitignore or .gitattributes; and
\* .gitignore and .gitattributes are written only after a successful git init.
C6_GitOnlyOnAcceptance ==
  /\ input \in {<<"n", "\n">>, <<>>} =>
       /\ ~Ran("git init") /\ ~Ran("git add")
       /\ \A n \in GitNames : \A i \in 1..Len(log) : ~(log[i].kind = "write" /\ log[i].what = n)
       /\ \A n \in GitNames : Join(ProjectRoot, <<n>>) \in DOMAIN files
                                 => Join(ProjectRoot, <<n>>) \in DOMAIN startFiles
  /\ \A i \in 1..Len(log) :
       (log[i].kind = "write" /\ log[i].what \in GitNames) =>
         \E j \in 1..(i - 1) : log[j] = Ev("exec", "git init", TRUE)

C6_Witness ==
  /\ pc = "done" /\ exitCode = 0
  /\ input = <<"n", "\n">>
  /\ Happened(Ev("print", "Skipped Git initialization", TRUE))

GitFile(p) == p[Len(p)] \in GitNames

C8_StarterMatchesLanguage ==
  Happened(Ev("print", "created successfully", TRUE)) =>
    /\ data.Lang = "cpp" =>
         /\ Wrote("main.cpp") /\ Wrote("pch.hpp") /\ ~Wrote("main.c")
         /\ files[Join(Root, <<"src", "main.cpp">>)] = cppMainTemplate
    /\ data.Lang = "c" =>
         /\ Wrote("main.c") /\ ~Wrote("main.cpp") /\ ~Wrote("pch.hpp")
         /\ <<"#include \"pch.hpp\"">> \notin LinesOf(Join(Root, <<"src", "main.c">>))
         /\ <<"std::cout << \"Hello, World!\" << std::endl;">>
              \notin LinesOf(Join(Root, <<"src", "main.c">>))

\* C9: a run with vcpkg reports success only if the bootstrap script and the
\* manifest-init command have each completed successfully in this run or in
\* an earlier one.
C9_SuccessNeedsBootstrap ==
  (Happened(Ev("print", "created successfully", TRUE)) /\ data.PackageMgr = "vcpkg") =>
    {"bootstrap-vcpkg", "vcpkg new"} \subseteq completed

IsTargetLine(l) == l[1] \in {"add_executable", "add_library"} /\ l[2] = flags.name

\* C10: whatever -type was given, the manifest written holds exactly one
\* build-target directive for the project, so a target_precompile_headers
\* directive refers to a defined target.
C10_OneTarget ==
  Wrote("CMakeLists.txt") =>
    /\ Count(files[ManifestPath], IsTargetLine) = 1
    /\ \A l \in LinesOf(ManifestPath) :
         l[1] = "target_precompile_headers" =>
           \E t \in LinesOf(ManifestPath) : IsTargetLine(t) /\ t[2] = l[2]

====
